---- MODULE Spec2Model ----
(***************************************************************************)
(* Model of the printf-style formatter of cmarrin/Format: the engine       *)
(* fmt::doprintf with its parser helpers (handleFlags, handleWidth,        *)
(* toNumber, handleLength), the converters (intToString, outInteger,       *)
(* outString) and the two sinks NativePrintArgs / NativeFormatArgs.        *)
(*                                                                         *)
(* One step of the model is one iteration of the doprintf loop.            *)
(* Characters are their ASCII codes; the format cursor `fmt` is the        *)
(* 0-based offset of the code.  A uintmax_t is four 16-bit limbs, most     *)
(* significant first, so that 64-bit values fit the model's integers.      *)
(***************************************************************************)
EXTENDS Integers, Sequences, FiniteSets, TLC

VARIABLES
  mem,            \* the bytes at _fmt: the format string, its terminator, and
                  \* the bytes after it that were read
  fmt,            \* doprintf: the cursor (0-based offset)
  flags,          \* doprintf: the flag set
  size,           \* doprintf: the running count it returns
  width,          \* doprintf: width of the last directive
  precision,      \* doprintf: precision of the last directive
  pc,             \* "scan": in the loop; "done": returned; "fault": killed
  out,            \* the characters passed to the sink's putChar, in order
                  \* (what the device sink printed)
  taken,          \* the getArg calls made: [type, val]
  seen,           \* the specifier characters the switch dispatched on
  toStringCalls,  \* the (width, precision) of each toString call
  sink,           \* "print": NativePrintArgs; "format": NativeFormatArgs
  buf,            \* NativeFormatArgs::_buf (_size is its length)
  index           \* NativeFormatArgs::_index

vars == <<mem, fmt, flags, size, width, precision, pc,
          out, taken, seen, toStringCalls, sink, buf, index>>

(***************************************************************************)
(* Bounds of the model                                                     *)
(***************************************************************************)
MaxIntFmt == 3      \* SpecInt: characters after the leading `%`
MaxFlagFmt == 4     \* SpecFlags: characters after the leading `%`
MaxScanFmt == 4     \* longest format string of SpecScan
MaxBufFmt == 4      \* longest format string of SpecBuf
MaxCap == 3         \* largest buffer capacity n of SpecBuf
TailLen == 1        \* bytes of memory after the terminator that can be read

(***************************************************************************)
(* Characters                                                              *)
(***************************************************************************)
Code ==
  "%" :> 37 @@ "-" :> 45 @@ "+" :> 43 @@ " " :> 32 @@ "#" :> 35 @@
  "*" :> 42 @@ "." :> 46 @@ "0" :> 48 @@ "1" :> 49 @@ "2" :> 50 @@
  "3" :> 51 @@ "5" :> 53 @@ "9" :> 57 @@
  "A" :> 65 @@ "F" :> 70 @@ "X" :> 88 @@ "E" :> 69 @@ "G" :> 71 @@
  "a" :> 97 @@ "b" :> 98 @@ "c" :> 99 @@ "d" :> 100 @@ "e" :> 101 @@
  "f" :> 102 @@ "g" :> 103 @@ "h" :> 104 @@ "i" :> 105 @@ "j" :> 106 @@
  "l" :> 108 @@ "o" :> 111 @@ "p" :> 112 @@ "q" :> 113 @@ "r" :> 114 @@
  "s" :> 115 @@ "t" :> 116 @@ "u" :> 117 @@ "x" :> 120 @@ "z" :> 122

C(s) == Code[s]

\* the byte string of a sequence of one-character strings
S(seq) == [k \in 1..Len(seq) |-> Code[seq[k]]]

Range(seq) == {seq[k] : k \in 1..Len(seq)}

Strings(Alpha, maxLen) == UNION {[1..k -> Alpha] : k \in 0..maxLen}

(***************************************************************************)
(* Inputs                                                                  *)
(***************************************************************************)
\* 32-bit argument words (as int32 bit patterns) for the integer directives
Vals == {0, 3, 255, -5, 2147483647}
\* argument words supplied for a `*` width or precision
StarVals == {-1, 0, 5}
\* the caller's string arguments: "hi" at address 0, "" at address 3
StrMem == <<104, 105, 0, 0>>
StrPtrs == {0, 3}
\* bit pattern of the float argument, and the texts toString may produce
FltVals == {1069547520}
FloatTexts == {<<49, 46, 53>>, <<50>>}
\* what the memory after the terminator, or an unwritten buffer cell, holds
TailBytes == {0, 97, 37, 100}
BufJunk == {0, 63}

(***************************************************************************)
(* uintmax_t as four 16-bit limbs                                          *)
(***************************************************************************)
Limb == 65536

Zero64 == <<0, 0, 0, 0>>

\* int32_t -> uintmax_t: sign extension
SignExtend(v) ==
  LET ext == IF v < 0 THEN Limb - 1 ELSE 0
  IN  <<ext, ext, (v \div Limb) % Limb, v % Limb>>

\* uint32_t -> uintptr_t: zero extension
ZeroExtend(v) == <<0, 0, (v \div Limb) % Limb, v % Limb>>

\* intmax_t signedValue = value; signedValue < 0
IsNegative64(x) == x[1] >= Limb \div 2

\* value = -signedValue  (two's complement, modulo 2^64)
Negate64(x) ==
  LET s4 == (Limb - 1 - x[4]) + 1
      s3 == (Limb - 1 - x[3]) + (s4 \div Limb)
      s2 == (Limb - 1 - x[2]) + (s3 \div Limb)
      s1 == (Limb - 1 - x[1]) + (s2 \div Limb)
  IN  <<s1 % Limb, s2 % Limb, s3 % Limb, s4 % Limb>>

\* value / base and value % base
DivMod64(x, base) ==
  LET t1 == x[1]
      t2 == (t1 % base) * Limb + x[2]
      t3 == (t2 % base) * Limb + x[3]
      t4 == (t3 % base) * Limb + x[4]
  IN  [quot |-> <<t1 \div base, t2 \div base, t3 \div base, t4 \div base>>,
       rem  |-> t4 % base]

(***************************************************************************)
(* FormatterArgs::getChar and getStringChar                                *)
(***************************************************************************)
\* _fmt[i]; an offset outside the mapped memory reads as -1
getChar(m, i) == IF i < Len(m) THEN m[i + 1] ELSE -1

getStringChar(p) == StrMem[p + 1]

(***************************************************************************)
(* Flags                                                                   *)
(***************************************************************************)
isFlag(fl, flag) == flag \in fl
setFlag(fl, flag) == fl \cup {flag}

(***************************************************************************)
(* Specifier parser                                                        *)
(***************************************************************************)
RECURSIVE toNumberFrom(_, _, _, _)
toNumberFrom(m, f, n, haveNumber) ==
  LET c == getChar(m, f)
  IN  IF c < C("0") \/ c > C("9")
      THEN [fmt |-> f, n |-> n, haveNumber |-> haveNumber]
      ELSE toNumberFrom(m, f + 1, n * 10 + c - C("0"), TRUE)

toNumber(m, f) == toNumberFrom(m, f, 0, FALSE)

RECURSIVE handleFlags(_, _, _)
handleFlags(m, f, fl) ==
  LET c == getChar(m, f)
  IN  CASE c = C("-") -> handleFlags(m, f + 1, setFlag(fl, "leftJustify"))
        [] c = C("+") -> handleFlags(m, f + 1, setFlag(fl, "plus"))
        [] c = C(" ") -> handleFlags(m, f + 1, setFlag(fl, "space"))
        [] c = C("#") -> handleFlags(m, f + 1, setFlag(fl, "alt"))
        [] c = C("0") -> handleFlags(m, f + 1, setFlag(fl, "zeroPad"))
        [] OTHER -> [fmt |-> f, flags |-> fl]

\* arg is the word getArg(Type::i16) yields when the field is `*`
handleWidth(m, f, arg) ==
  IF getChar(m, f) = C("*")
  THEN [fmt |-> f + 1, val |-> arg, asks |-> <<"i16">>]
  ELSE LET t == toNumber(m, f)
       IN  [fmt |-> t.fmt, val |-> IF t.haveNumber THEN t.n ELSE -1,
            asks |-> <<>>]

handleLength(m, f) ==
  LET c == getChar(m, f)
  IN  CASE c = C("h") ->
             IF getChar(m, f + 1) = C("h")
             THEN [fmt |-> f + 2, length |-> "HH"]
             ELSE [fmt |-> f + 1, length |-> "H"]
        [] c = C("l") ->
             IF getChar(m, f + 1) = C("l")
             THEN [fmt |-> f + 2, length |-> "LL"]
             ELSE [fmt |-> f + 1, length |-> "L"]
        [] c = C("j") -> [fmt |-> f, length |-> "J"]
        [] c = C("z") -> [fmt |-> f, length |-> "Z"]
        [] c = C("t") -> [fmt |-> f, length |-> "T"]
        [] OTHER -> [fmt |-> f, length |-> "None"]

(***************************************************************************)
(* Numeric renderer                                                        *)
(***************************************************************************)
MaxIntegerBufferSize == 24

RECURSIVE intDigits(_, _, _)
intDigits(value, base, cap) ==
  IF value = Zero64 THEN <<>>
  ELSE LET dm == DivMod64(value, base)
           hexBase == IF cap = "Yes" THEN C("A") ELSE C("a")
           ch == IF dm.rem > 9 THEN dm.rem - 10 + hexBase
                 ELSE dm.rem + C("0")
       IN  Append(intDigits(dm.quot, base, cap), ch)

\* text: the string at the returned pointer p; off: p - buf
intToString(value, bufSize, base, cap) ==
  IF value = Zero64
  THEN [text |-> <<C("0")>>, off |-> 0]
  ELSE LET ds == intDigits(value, base, cap)
       IN  [text |-> ds, off |-> bufSize - 1 - Len(ds)]

(***************************************************************************)
(* Field formatter                                                         *)
(***************************************************************************)
Spaces(k, ch) == [j \in 1..(IF k > 0 THEN k ELSE 0) |-> ch]

\* outIntegerPad with the padding after the digits when `-` is set
outIntegerPadLeftJustify(pre, s, w, fl) ==
  LET padding == Spaces(w - Len(pre) - Len(s.text),
                        IF isFlag(fl, "zeroPad") THEN C("0") ELSE C(" "))
  IN  [out  |-> IF isFlag(fl, "leftJustify")
                THEN pre \o s.text \o padding
                ELSE pre \o padding \o s.text,
       size |-> Len(pre) + s.off + Len(padding)]

\* The tail of outInteger, from intToString on.  pre: the sign and prefix
\* characters already passed to putChar (width was decremented once for
\* each); s: what intToString returned.
\* out: the characters passed to putChar, in order; size: the value returned
outIntegerPad(pre, s, w, fl) ==
  [out  |-> pre
            \o Spaces(w - Len(pre) - Len(s.text),
                      IF isFlag(fl, "zeroPad") THEN C("0") ELSE C(" "))
            \o s.text,
   size |-> Len(pre) + s.off
            + Len(Spaces(w - Len(pre) - Len(s.text), C(" ")))]

\* the alternate-form prefix
outIntegerAlt(fl, base, cap) ==
  IF isFlag(fl, "alt") /\ base # 10
  THEN IF base = 16
       THEN <<C("0"), IF cap = "Yes" THEN C("X") ELSE C("x")>>
       ELSE <<C("0")>>
  ELSE <<>>

outInteger(value, sign, w, prec, fl, base, cap) ==
  IF sign = "Yes" /\ IsNegative64(value)
  THEN outIntegerPad(<<C("-")>> \o outIntegerAlt(fl, base, cap),
                     intToString(Negate64(value), MaxIntegerBufferSize, base, cap),
                     w, fl)
  ELSE outIntegerPad(outIntegerAlt(fl, base, cap),
                     intToString(value, MaxIntegerBufferSize, base, cap),
                     w, fl)

RECURSIVE stringFrom(_)
stringFrom(p) ==
  LET c == getStringChar(p)
  IN  IF c = 0 THEN <<>> ELSE <<c>> \o stringFrom(p + 1)

outString(p, w, prec, fl) ==
  LET text == stringFrom(p)
      sz == Len(text)
  IN  [out  |-> text \o (IF w > sz THEN Spaces(w - sz, C(" ")) ELSE <<>>),
       size |-> sz]

(***************************************************************************)
(* toString(buf, val, int8_t width, uint8_t precision): the arguments as   *)
(* the callee receives them                                                *)
(***************************************************************************)
ToInt8(v) == ((v + 128) % 256) - 128
ToUint8(v) == v % 256

(***************************************************************************)
(* One `%` directive of doprintf: the body of the loop from `fmt++` to     *)
(* the trailing `++fmt`.  a.w, a.p, a.v are the words getArg yields for    *)
(* the width, the precision and the value; a.t is the text toString        *)
(* writes.  asks lists the getArg calls made, in order, vals the words     *)
(* they yielded.                                                           *)
(***************************************************************************)
IntSpecs == {C("d"), C("i"), C("u"), C("o"), C("x"), C("X")}
FloatSpecs == {C("f"), C("F"), C("e"), C("E"), C("g"), C("G")}

\* the getArg call the switch makes for the specifier character c
argAsk(c) ==
  CASE c \in IntSpecs -> <<"i16">>
    [] c \in FloatSpecs -> <<"flt">>
    [] c \in {C("c"), C("b")} -> <<"i8">>
    [] c = C("s") -> <<"str">>
    [] c = C("p") -> <<"ptr">>
    [] OTHER -> <<>>

\* the switch on the specifier character c
\* r: what was passed to putChar and added to size; adv: the extra fmt++ of
\* the default case; call: the toString call
convert(c, a, w, prec, fl) ==
  CASE c \in {C("d"), C("i")} ->
         [r |-> outInteger(SignExtend(a.v), "Yes", w, prec, fl, 10, "No"),
          adv |-> 0, call |-> <<>>]
    [] c = C("u") ->
         [r |-> outInteger(SignExtend(a.v), "No", w, prec, fl, 10, "No"),
          adv |-> 0, call |-> <<>>]
    [] c = C("o") ->
         [r |-> outInteger(SignExtend(a.v), "No", w, prec, fl, 8, "No"),
          adv |-> 0, call |-> <<>>]
    [] c \in {C("x"), C("X")} ->
         [r |-> outInteger(SignExtend(a.v), "No", w, prec, fl, 16,
                           IF c = C("X") THEN "Yes" ELSE "No"),
          adv |-> 0, call |-> <<>>]
    [] c \in FloatSpecs ->
         [r |-> [out |-> a.t, size |-> 0],
          adv |-> 0,
          call |-> <<[width |-> ToInt8(w),
                      precision |-> ToUint8(IF prec < 0 THEN 6 ELSE prec)]>>]
    [] c = C("c") ->
         [r |-> [out |-> <<a.v % 256>>, size |-> 1],
          adv |-> 0, call |-> <<>>]
    [] c = C("b") ->
         [r |-> [out |-> IF a.v # 0 THEN S(<<"t", "r", "u", "e">>)
                         ELSE S(<<"f", "a", "l", "s", "e">>),
                 size |-> 0],
          adv |-> 0, call |-> <<>>]
    [] c = C("s") ->
         [r |-> outString(a.v, w, prec, fl),
          adv |-> 0, call |-> <<>>]
    [] c = C("p") ->
         [r |-> outInteger(ZeroExtend(a.v), "No", w, prec, fl, 16, "No"),
          adv |-> 0, call |-> <<>>]
    [] OTHER ->
         [r |-> [out |-> <<c>>, size |-> 1],
          adv |-> 1, call |-> <<>>]

\* the directive as parsed, the cursor on its specifier character c
parsed(hf, hw, hp, hl, c) ==
  [spec      |-> hl.fmt,
   specifier |-> c,
   flags     |-> hf.flags,
   width     |-> hw.val,
   precision |-> hp.val,
   length    |-> hl.length,
   wAsk      |-> hw.asks,
   pAsk      |-> hp.asks,
   vAsk      |-> argAsk(c)]

\* after handleLength (hl its result): the operand of the switch,
\* f->getChar(fmt)
parseLength(m, hf, hw, hp, hl) == parsed(hf, hw, hp, hl, getChar(m, hl.fmt))

\* after the precision (hp its result): Length length = handleLength(f, fmt)
parsePrecision(m, hf, hw, hp) ==
  parseLength(m, hf, hw, hp, handleLength(m, hp.fmt))

\* after the width (hw its result): int32_t precision = -1;
\* if (getChar(fmt) == '.') precision = handleWidth(f, ++fmt)
parseWidth(m, hf, hw, a) ==
  parsePrecision(m, hf, hw,
                 IF getChar(m, hw.fmt) = C(".")
                 THEN handleWidth(m, hw.fmt + 1, a.p)
                 ELSE [fmt |-> hw.fmt, val |-> -1, asks |-> <<>>])

\* after handleFlags (hf its result): int32_t width = handleWidth(f, fmt)
parseFlags(m, hf, a) == parseWidth(m, hf, handleWidth(m, hf.fmt, a.w), a)

\* fmt++; handleFlags(f, fmt, flags); then the rest of the optional part of
\* the directive at offset f0
parseDirective(m, f0, fl0, a) == parseFlags(m, handleFlags(m, f0 + 1, fl0), a)

\* the state at the trailing `++fmt`: d the parsed directive, conv the
\* outcome of the switch
directiveResult(d, a, conv) ==
  [spec      |-> d.spec,
   specifier |-> d.specifier,
   fmt       |-> d.spec + conv.adv + 1,
   flags     |-> d.flags,
   width     |-> d.width,
   precision |-> d.precision,
   out       |-> conv.r.out,
   size      |-> conv.r.size,
   asks      |-> d.wAsk \o d.pAsk \o d.vAsk,
   vals      |-> (IF d.wAsk # <<>> THEN <<a.w>> ELSE <<>>)
                 \o (IF d.pAsk # <<>> THEN <<a.p>> ELSE <<>>)
                 \o (IF d.vAsk # <<>> THEN <<a.v>> ELSE <<>>),
   call      |-> conv.call]

dispatch(d, a) ==
  directiveResult(d, a, convert(d.specifier, a, d.width, d.precision, d.flags))

doDirective(m, f0, fl0, a) == dispatch(parseDirective(m, f0, fl0, a), a)

\* the parse of the directive at the cursor, whatever the arguments are
NoArgs == [w |-> 0, p |-> 0, v |-> 0, t |-> <<>>]
Probe(m, f0, fl0) == parseDirective(m, f0, fl0, NoArgs)

(***************************************************************************)
(* Sinks                                                                   *)
(***************************************************************************)
\* NativeFormatArgs::putChar on the pair (_buf, _index); Len(b) is _size
putChar(b, ix, c) ==
  IF ix < Len(b) - 1
  THEN [buf |-> [b EXCEPT ![ix + 1] = c], index |-> ix + 1]
  ELSE [buf |-> b, index |-> ix]

RECURSIVE putChars(_, _, _)
putChars(b, ix, cs) ==
  IF cs = <<>> THEN [buf |-> b, index |-> ix]
  ELSE LET s == putChar(b, ix, Head(cs))
       IN  putChars(s.buf, s.index, Tail(cs))

\* the sink after the engine passed cs to putChar
Emit(cs) ==
  IF sink = "format"
  THEN LET s == putChars(buf, index, cs)
       IN  buf' = s.buf /\ index' = s.index
  ELSE UNCHANGED <<buf, index>>

\* FormatterArgs::end(): a no-op for the device, putChar('\0') for the buffer
end ==
  IF sink = "format"
  THEN LET s == putChar(buf, index, 0)
       IN  buf' = s.buf /\ index' = s.index
  ELSE UNCHANGED <<buf, index>>

(***************************************************************************)
(* The engine                                                              *)
(***************************************************************************)
\* offset of the terminator of the format string
FmtLen == CHOOSE k \in 0..(Len(mem) - 1) :
            mem[k + 1] = 0 /\ \A j \in 0..(k - 1) : mem[j + 1] # 0

\* the largest offset the next loop iteration reads
NextRead ==
  IF getChar(mem, fmt) = C("%") THEN Probe(mem, fmt, flags).spec ELSE fmt

InitWith(prefix, Alpha, maxLen, Sinks) ==
  /\ mem \in {prefix \o s \o <<0>> : s \in Strings(Alpha, maxLen)}
  /\ fmt = 0
  /\ flags = {}
  /\ size = 0
  /\ width = -1
  /\ precision = -1
  /\ pc = "scan"
  /\ out = <<>>
  /\ taken = <<>>
  /\ seen = <<>>
  /\ toStringCalls = <<>>
  /\ sink \in Sinks
  /\ buf \in IF sink = "format"
             THEN UNION {[1..k -> BufJunk] : k \in 1..MaxCap}
             ELSE {<<>>}
  /\ index = 0

\* while ((c = getChar(fmt)) != '\0') { if (c != '%') { putChar(c); ... } }
Literal ==
  /\ pc = "scan"
  /\ fmt < Len(mem)
  /\ getChar(mem, fmt) # 0
  /\ getChar(mem, fmt) # C("%")
  /\ out' = Append(out, getChar(mem, fmt))
  /\ Emit(<<getChar(mem, fmt)>>)
  /\ fmt' = fmt + 1
  /\ size' = size + 1
  /\ UNCHANGED <<mem, flags, width, precision, pc, taken, seen, toStringCalls, sink>>

\* the words the argument list can hold for a getArg call of each kind
ArgWords(ask) ==
  CASE ask = <<>> -> {0}
    [] ask = <<"str">> -> StrPtrs
    [] ask = <<"flt">> -> FltVals
    [] OTHER -> Vals

\* the rest of the loop body: one `%` directive
Directive ==
  /\ pc = "scan"
  /\ getChar(mem, fmt) = C("%")
  /\ \E pr \in {Probe(mem, fmt, flags)} :
         /\ pr.spec < Len(mem)
         /\ \E aw \in (IF pr.wAsk # <<>> THEN StarVals ELSE {0}),
               ap \in (IF pr.pAsk # <<>> THEN StarVals ELSE {0}),
               av \in ArgWords(pr.vAsk),
               at \in (IF pr.vAsk = <<"flt">> THEN FloatTexts ELSE {<<>>}) :
               \E r \in {doDirective(mem, fmt, flags,
                                    [w |-> aw, p |-> ap, v |-> av, t |-> at])} :
                   /\ out' = out \o r.out
                   /\ Emit(r.out)
                   /\ fmt' = r.fmt
                   /\ flags' = r.flags
                   /\ width' = r.width
                   /\ precision' = r.precision
                   /\ size' = size + r.size
                   /\ taken' = taken \o [k \in 1..Len(r.asks) |->
                                           [type |-> r.asks[k], val |-> r.vals[k]]]
                   /\ seen' = Append(seen, r.specifier)
                   /\ toStringCalls' = toStringCalls \o r.call
  /\ UNCHANGED <<mem, pc, sink>>

\* the loop reads the terminator: f->end(); return size
End ==
  /\ pc = "scan"
  /\ getChar(mem, fmt) = 0
  /\ end
  /\ pc' = "done"
  /\ UNCHANGED <<mem, fmt, flags, size, width, precision, out, taken,
                 seen, toStringCalls, sink>>

\* The next read is past the memory read so far, hence past the terminator:
\* the byte there is whatever the memory holds ...
ReadPast ==
  /\ pc = "scan"
  /\ NextRead >= Len(mem)
  /\ Len(mem) < FmtLen + 1 + TailLen
  /\ \E b \in TailBytes : mem' = Append(mem, b)
  /\ UNCHANGED <<fmt, flags, size, width, precision, pc, out, taken,
                 seen, toStringCalls, sink, buf, index>>

\* ... or the read faults and the call never returns
Fault ==
  /\ pc = "scan"
  /\ NextRead >= Len(mem)
  /\ pc' = "fault"
  /\ UNCHANGED <<mem, fmt, flags, size, width, precision, out, taken,
                 seen, toStringCalls, sink, buf, index>>

Next == Literal \/ Directive \/ End \/ ReadPast \/ Fault

(***************************************************************************)
(* Specifications: the same engine over different sets of inputs           *)
(***************************************************************************)
\* integer directives with flags and a width, printed to the device
\* (a format string that starts with a directive)
IntAlpha == {C("%"), C("-"), C("+"), C("#"), C("0"), C("5"), C("*"), C("."),
             C("a"), C("d"), C("i"), C("u"), C("o"), C("x"), C("X"), C("p")}
InitInt == InitWith(<<C("%")>>, IntAlpha, MaxIntFmt, {"print"})
SpecInt == InitInt /\ [][Next]_vars

\* several directives in one format string (which starts with a directive)
FlagAlpha == {C("%"), C("#"), C("0"), C("5"), C("x"), C("d")}
InitFlags == InitWith(<<C("%")>>, FlagAlpha, MaxFlagFmt, {"print"})
SpecFlags == InitFlags /\ [][Next]_vars

\* literals, `%%`, unknown specifiers, length modifiers, `*` and `.`
ScanAlpha == {C("%"), C("a"), C("q"), C("h"), C("l"), C("j"), C("z"), C("t"),
              C("d"), C("x"), C("f"), C("s"), C("*"), C("."), C("5")}
InitScan == InitWith(<<>>, ScanAlpha, MaxScanFmt, {"print"})
SpecScan == InitScan /\ [][Next]_vars

\* formatting into a buffer of capacity 1..MaxCap
BufAlpha == {C("%"), C("a"), C("b"), C("d"), C("s")}
InitBuf == InitWith(<<>>, BufAlpha, MaxBufFmt, {"print", "format"})
SpecBuf == InitBuf /\ [][Next]_vars

(***************************************************************************)
(* Vocabulary of the properties                                            *)
(***************************************************************************)
\* this step is one `%` directive of the loop
DirectiveStep == pc = "scan" /\ getChar(mem, fmt) = C("%") /\ fmt' # fmt

\* what the step passed to putChar, the getArg calls it made, its specifier
NewOut == SubSeq(out', Len(out) + 1, Len(out'))
NewTaken == SubSeq(taken', Len(taken) + 1, Len(taken'))
NewSpecifier == seen'[Len(seen')]

\* the argument words the step drew, laid out as doDirective takes them
StepArgs ==
  LET pr == Probe(mem, fmt, flags)
  IN  [w |-> IF pr.wAsk # <<>> THEN NewTaken[1].val ELSE 0,
       p |-> IF pr.pAsk # <<>> THEN NewTaken[Len(pr.wAsk) + 1].val ELSE 0,
       v |-> IF pr.vAsk # <<>> THEN NewTaken[Len(NewTaken)].val ELSE 0,
       t |-> NewOut]

\* the run read nothing after the terminator of the format string
InBounds == Len(mem) = FmtLen + 1

\* the number of letters of a length modifier (h hh l ll j z t) at offset f
ModLen(m, f) ==
  CASE getChar(m, f) = C("h") -> IF getChar(m, f + 1) = C("h") THEN 2 ELSE 1
    [] getChar(m, f) = C("l") -> IF getChar(m, f + 1) = C("l") THEN 2 ELSE 1
    [] getChar(m, f) \in {C("j"), C("z"), C("t")} -> 1
    [] OTHER -> 0

\* the conversion specifiers the formatter recognizes
Recognized == IntSpecs \cup FloatSpecs \cup {C("c"), C("b"), C("s"), C("p")}

\* the directive at offset f0 as the grammar  % flags width .precision
\* length specifier  reads it: the offset of its specifier and its `*`s
Grammar(m, f0) ==
  LET hf == handleFlags(m, f0 + 1, {})
      hw == handleWidth(m, hf.fmt, 0)
      dot == getChar(m, hw.fmt) = C(".")
      hp == IF dot THEN handleWidth(m, hw.fmt + 1, 0)
            ELSE [fmt |-> hw.fmt, val |-> -1, asks |-> <<>>]
  IN  [width |-> hf.fmt,
       dot   |-> IF dot THEN hw.fmt ELSE -1,
       spec  |-> hp.fmt + ModLen(m, hp.fmt),
       stars |-> Len(hw.asks) + Len(hp.asks)]

\* the conventional digits of a magnitude 0 <= mag < 2^31
RefDigitChar(d, upper) ==
  IF d < 10 THEN C("0") + d
  ELSE (IF upper THEN C("A") ELSE C("a")) + d - 10

RECURSIVE RefDigitsNZ(_, _, _)
RefDigitsNZ(mag, base, upper) ==
  IF mag = 0 THEN <<>>
  ELSE Append(RefDigitsNZ(mag \div base, base, upper),
              RefDigitChar(mag % base, upper))

RefDigits(mag, base, upper) ==
  IF mag = 0 THEN <<C("0")>> ELSE RefDigitsNZ(mag, base, upper)

\* the field the integer directive c must emit for the argument word v
\* under the flags fl and the width w
Layout(c, fl, w, v) ==
  LET base == CASE c \in {C("d"), C("i"), C("u")} -> 10
                [] c = C("o") -> 8
                [] OTHER -> 16
      sign == IF c \in {C("d"), C("i")} /\ v < 0 THEN <<C("-")>> ELSE <<>>
      prefix == IF "alt" \in fl /\ base # 10
                THEN IF base = 16
                     THEN <<C("0"), IF c = C("X") THEN C("X") ELSE C("x")>>
                     ELSE <<C("0")>>
                ELSE <<>>
      digits == RefDigits(IF v < 0 THEN -v ELSE v, base, c = C("X"))
      w1 == w - Len(sign) - Len(prefix)
      npad == IF w1 - Len(digits) > 0 THEN w1 - Len(digits) ELSE 0
      padc == IF "zeroPad" \in fl THEN C("0") ELSE C(" ")
  IN  sign \o prefix \o [k \in 1..npad |-> padc] \o digits

\* v is in the range where the conversion c does not wrap: any value but
\* INT_MIN for d and i, a non-negative value for u, o, x, X and p
NonWrapping(c, v) ==
  IF c \in {C("d"), C("i")} THEN v >= -2147483647 ELSE v >= 0

\* a hexadecimal text of at most 8 digits as a 32-bit word <<high, low>>
HexDigitVal(ch) == IF ch >= C("a") THEN ch - C("a") + 10
                   ELSE IF ch >= C("A") THEN ch - C("A") + 10
                   ELSE ch - C("0")

RECURSIVE ParseHex(_)
ParseHex(ds) ==
  IF ds = <<>> THEN <<0, 0>>
  ELSE LET r == ParseHex(SubSeq(ds, 1, Len(ds) - 1))
           t == r[2] * 16 + HexDigitVal(ds[Len(ds)])
       IN  <<r[1] * 16 + t \div Limb, t % Limb>>

Word32(v) == <<(v \div Limb) % Limb, v % Limb>>

(***************************************************************************)
(* The claims                                                              *)
(***************************************************************************)

\* C1 -- Buffer sink result: when vformat has returned, the buffer of
\* capacity n >= 1 holds the first k = min(L, n-1) characters of the output
\* (L characters were passed to putChar) at indices 0..k-1 and a NUL at
\* index k, also when the output was truncated.
BufferTerminated ==
  (pc = "done" /\ sink = "format") =>
    LET n == Len(buf)
        L == Len(out)
        k == IF L < n - 1 THEN L ELSE n - 1
    IN  /\ k < n
        /\ \A j \in 1..k : buf[j] = out[j]
        /\ buf[k + 1] = 0

\* C2 -- Returned count: for a format string of literals and d i u o x X c s
\* p directives, the value doprintf returns is the number of characters it
\* passed to putChar, for the buffer sink as for the device sink.
CountedSpecs == IntSpecs \cup {C("c"), C("s"), C("p")}
ReturnedCount ==
  (pc = "done" /\ InBounds /\ Range(seen) \subseteq CountedSpecs) =>
    size = Len(out)

\* C3 -- Literal percent: `%%`, and `%` before an unrecognized specifier
\* character, emits that character once, takes no argument and consumes
\* exactly the two format characters, so the next character is processed as
\* after a literal.
LiteralPercent ==
  [][(DirectiveStep /\ getChar(mem, fmt + 1) \in {C("%"), C("q")}) =>
       /\ fmt' = fmt + 2
       /\ NewOut = <<getChar(mem, fmt + 1)>>
       /\ size' = size + 1
       /\ taken' = taken]_vars

\* C4 -- Integer field layout: an integer directive (d i u o x X p) with a
\* value in the non-wrapping range emits '-' if signed and negative, then
\* the alternate-form prefix if # is in effect and the base is not 10, then
\* the padding ('0' with the zero-pad flag, ' ' otherwise) up to the width
\* less the sign and prefix, then the digits of |v|: padding always comes
\* before the digits.  The flags are those in effect when the field is
\* written.
IntegerLayout ==
  [][(/\ DirectiveStep
      /\ NewSpecifier \in IntSpecs \cup {C("p")}
      /\ NonWrapping(NewSpecifier, taken'[Len(taken')].val)) =>
       NewOut = Layout(NewSpecifier, flags', width', taken'[Len(taken')].val)]_vars

\* C4 witness: `%-5d` of 3 has returned and printed "    3"
IntegerLayoutWitness ==
  /\ pc = "done"
  /\ mem = S(<<"%", "-", "5", "d">>) \o <<0>>
  /\ taken = <<[type |-> "i16", val |-> 3]>>
  /\ out = S(<<" ", " ", " ", " ", "3">>)

\* C5 -- Hex round-trip: `%x` (no flags, no width) of any 32-bit word v
\* emits at most 8 hex digits without leading zeros that parse back to v.
HexRoundTrip ==
  [][(/\ DirectiveStep
      /\ flags = {}
      /\ getChar(mem, fmt + 1) = C("x")) =>
       /\ Len(NewOut) <= 8
       /\ NewOut = <<C("0")>> \/ NewOut[1] # C("0")
       /\ ParseHex(NewOut) = Word32(taken'[Len(taken')].val)]_vars

\* C6 -- Bounded scan: doprintf reads the format string only at offsets
\* 0..n (n the offset of the terminator), its cursor never moves past n,
\* and the call ends by reaching the terminator.
BoundedScan ==
  /\ fmt <= FmtLen
  /\ InBounds
  /\ pc # "fault"

\* C7 -- Fresh directive state: the flags of a directive start empty, so a
\* directive emits what it would emit had no earlier directive set a flag.
FreshFlags ==
  [][DirectiveStep =>
       NewOut = doDirective(mem, fmt, {}, StepArgs).out]_vars

\* C8 -- Length modifiers are consumed and inert: the directive `%` m c,
\* m one of h hh l ll j z t and c an integer specifier, emits the same
\* characters, adds the same count and takes the same arguments as `%` c,
\* and leaves the cursor after c.
LengthInert ==
  [][(/\ DirectiveStep
      /\ ModLen(mem, fmt + 1) > 0
      /\ getChar(mem, fmt + 1 + ModLen(mem, fmt + 1)) \in IntSpecs) =>
       LET c == getChar(mem, fmt + 1 + ModLen(mem, fmt + 1))
           plain == doDirective(<<C("%"), c, 0>>, 0, flags,
                                [StepArgs EXCEPT !.v =
                                   IF NewTaken = <<>> THEN 0
                                   ELSE NewTaken[Len(NewTaken)].val])
       IN  /\ Len(NewTaken) = Len(plain.asks)
           /\ NewOut = plain.out
           /\ size' = size + plain.size
           /\ fmt' = fmt + 2 + ModLen(mem, fmt + 1)]_vars

\* C9 -- Argument consumption: a directive with a recognized specifier (with
\* or without a length modifier) makes one getArg call per `*` and then
\* exactly one for its value; `%%` and unknown specifiers make none for a
\* value.
ArgConsumption ==
  [][(DirectiveStep /\ Grammar(mem, fmt).spec < Len(mem)) =>
       Len(NewTaken) = Grammar(mem, fmt).stars
                       + (IF getChar(mem, Grammar(mem, fmt).spec) \in Recognized
                          THEN 1 ELSE 0)]_vars

\* C10 -- Precision parsing: the precision is -1 without a `.`, the decimal
\* value of the digits after the `.`, the argument of a `*` after it, and 0
\* when neither follows the `.`; a float directive passes it (6 if
\* negative) to toString.
PrecisionParsing ==
  [][(DirectiveStep /\ NewSpecifier \in Recognized) =>
       LET g == Grammar(mem, fmt)
           nxt == getChar(mem, g.dot + 1)
       IN  /\ precision' =
                (CASE g.dot < 0 -> -1
                   [] g.dot >= 0 /\ nxt = C("*") -> NewTaken[g.stars].val
                   [] g.dot >= 0 /\ nxt >= C("0") /\ nxt <= C("9") ->
                        toNumber(mem, g.dot + 1).n
                   [] OTHER -> 0)
           /\ (NewSpecifier \in FloatSpecs =>
                 toStringCalls'[Len(toStringCalls')].precision =
                   IF precision' < 0 THEN 6 ELSE precision')]_vars

====
